---- MODULE Spec2Model ----
(***************************************************************************)
(* Trading backend: order lifecycle, trade creation and holdings ledger.   *)
(*                                                                         *)
(* Money is an integer number of cents (the Numeric(19, 2) columns).  Each *)
(* request is a process with its own database session; one action is one   *)
(* database statement (with the commit that follows it) together with the  *)
(* Python code that runs before the next statement.  Every SELECT sees the  *)
(* committed state of that moment: nothing in the services takes a lock or  *)
(* opens a transaction around a read and the write that depends on it.      *)
(***************************************************************************)
EXTENDS Integers, Sequences, FiniteSets, TLC

(* ------------------------------ bounds -------------------------------- *)

\* number of request-handling threads that may be in flight together
NumProcs == 2
\* largest quantity a request asks for
MaxQty == 2
\* number of events from outside (accepted placements, cancellation requests,
\* catalog changes) over a run; runs of longer histories are given more
MaxEvents == 2

Procs == 1..NumProcs
\* last-traded prices the external feed may set, in cents
Prices == {100, 101}
\* symbols of the seeded catalog that the model keeps
CatalogSymbols == {"AAPL", "MSFT"}
\* symbol strings a request may carry
RequestSymbols == {"AAPL", "aapl", "MSFT", "XYZ"}
\* limit prices a request may carry (None is <<>>), in cents
RequestPrices == {<<>>, <<-1>>, <<0>>, <<100>>, <<101>>}

(* ------------------------- program constants -------------------------- *)

DEFAULT_USER_ID == "user_123"
AUTO_EXECUTE_MARKET_ORDERS == TRUE

None == <<>>
Some(v) == <<v>>
IsNone(x) == x = <<>>
Val(x) == x[1]

\* str.upper() on the symbol strings of the model
Upper(s) ==
    CASE s = "aapl" -> "AAPL"
      [] s = "msft" -> "MSFT"
      [] s = "xyz" -> "XYZ"
      [] OTHER -> s

\* price of the seeded instrument, in cents
SeedPrice(s) == IF s = "AAPL" THEN 100 ELSE 101

(* ------------------------------- state -------------------------------- *)

VARIABLES
    instruments,     \* table instruments: symbol -> [last_traded_price, is_active]
    orders,          \* table orders: sequence indexed by id
    trades,          \* table trades: sequence indexed by id
    portfolio,       \* table portfolio: set of rows; with each row, fills is
                     \* the set of executed prices of the BUY trades applied
                     \* to it since its INSERT (observation only, no column)
    proc,            \* per request thread: program counter, arguments, locals
    catalog_updates, \* how many external catalog changes happened
    cancels,         \* how many cancellation requests were made
    audit            \* per order: the statuses persisted so far, in order
                     \* (observation only)

vars == <<instruments, orders, trades, portfolio, proc, catalog_updates, cancels,
          audit>>

Idle == [pc |-> "idle", op |-> "", order_id |-> 0, user_id |-> "", symbol |-> "",
         order_type |-> "", order_style |-> "", quantity |-> 0, price |-> None,
         validated_price |-> 0, loaded_status |-> "", resolved_price |-> 0,
         execution_price |-> 0, trade_id |-> 0, holding |-> None, result |-> "",
         available |-> 0, requested |-> 0, holdings |-> {}, response |-> {}]

Init ==
    /\ instruments = [s \in CatalogSymbols |->
                        [last_traded_price |-> SeedPrice(s), is_active |-> TRUE]]
    /\ orders = <<>>
    /\ trades = <<>>
    /\ portfolio = {}
    /\ proc = [p \in Procs |-> Idle]
    /\ catalog_updates = 0
    /\ cancels = 0
    /\ audit = <<>>

(* ------------------------------ queries ------------------------------- *)

\* get_instrument_by_symbol as it would be without the is_active filter
get_instrument_by_symbol_any(symbol) ==
    IF Upper(symbol) \in CatalogSymbols
    THEN Some([symbol |-> Upper(symbol),
               last_traded_price |-> instruments[Upper(symbol)].last_traded_price])
    ELSE None

\* InstrumentService.get_instrument_by_symbol: the active instrument whose
\* symbol is symbol.upper(), or None (InstrumentNotFoundException)
get_instrument_by_symbol(symbol) ==
    IF Upper(symbol) \in CatalogSymbols /\ instruments[Upper(symbol)].is_active
    THEN Some([symbol |-> Upper(symbol),
               last_traded_price |-> instruments[Upper(symbol)].last_traded_price])
    ELSE None

\* PortfolioService.get_user_holding: the row of (user_id, symbol), compared
\* as given, or None
get_user_holding(user_id, symbol) ==
    LET rows == {h \in portfolio : h.user_id = user_id /\ h.symbol = symbol}
    IN  IF rows = {} THEN None ELSE Some(CHOOSE h \in rows : TRUE)

\* A Numeric(19, 2) column holds num/den rounded to a whole number of cents.
\* An exact half goes up or down with the database and the value: SQLite
\* keeps the nearest binary double, printed with two decimals when read;
\* PostgreSQL and MySQL round the decimal half away from zero.
Quantize(num, den) ==
    LET n == IF den < 0 THEN 0 - num ELSE num
        d == IF den < 0 THEN 0 - den ELSE den
        q == n \div d
        r == n % d
    IN  IF 2 * r < d THEN {q}
        ELSE IF 2 * r > d THEN {q + 1}
        ELSE {q, q + 1}

\* primary key given to a new portfolio row (SQLite rowid: largest id + 1)
NewHoldingId ==
    IF portfolio = {} THEN 1
    ELSE (CHOOSE i \in {h.id : h \in portfolio} :
              \A j \in {h.id : h \in portfolio} : j <= i) + 1

(* --------------------------- order placement -------------------------- *)

\* the request thread's slot: a request starts on the lowest idle slot
CanStart(p) ==
    /\ proc[p].pc = "idle"
    /\ \A q \in Procs : q < p => proc[q].pc # "idle"

\* placements accepted so far or still being validated
Placements ==
    Len(orders) + Cardinality({q \in Procs :
                      proc[q].pc \in {"validate_holding", "create_order"}})

Finish(p, result) == [proc EXCEPT ![p] = [Idle EXCEPT !.pc = "done",
                                           !.op = proc[p].op,
                                           !.order_id = proc[p].order_id,
                                           !.trade_id = proc[p].trade_id,
                                           !.result = result]]

\* validate_params as it would be without the check of the LIMIT price
validate_params_quantity_only(order_style, quantity, price) ==
    IF quantity <= 0 THEN "InvalidOrder" ELSE ""

\* OrderService.validate_order, the checks made before any holdings query
validate_params(order_style, quantity, price) ==
    IF quantity <= 0 THEN "InvalidOrder"
    ELSE IF order_style = "LIMIT" /\ (IsNone(price) \/ Val(price) <= 0)
         THEN "InvalidOrder"
    ELSE ""

\* create_order as it would be with the instrument looked up before the
\* parameters are checked
create_order_instrument_first(p, op, user_id, symbol, order_type, order_style, quantity, price) ==
    /\ CanStart(p)
    /\ LET started == [Idle EXCEPT !.op = op, !.user_id = user_id,
                           !.symbol = symbol, !.order_type = order_type,
                           !.order_style = order_style, !.quantity = quantity,
                           !.price = price]
           instrument == get_instrument_by_symbol(symbol)
       IN  IF IsNone(instrument)
           THEN proc' = [proc EXCEPT ![p] = [started EXCEPT !.pc = "done",
                             !.result = "InstrumentNotFound"]]
           ELSE IF validate_params(order_style, quantity, price) # ""
           THEN proc' = [proc EXCEPT ![p] = [started EXCEPT !.pc = "done",
                             !.result = validate_params(order_style, quantity, price)]]
           ELSE proc' = [proc EXCEPT ![p] = [started EXCEPT
                             !.pc = IF order_type = "SELL" THEN "validate_holding"
                                    ELSE "create_order",
                             !.validated_price = Val(instrument).last_traded_price]]
    /\ UNCHANGED <<instruments, orders, trades, portfolio, catalog_updates, cancels, audit>>

\* OrderService.create_order up to the instrument lookup of validate_order
create_order(p, op, user_id, symbol, order_type, order_style, quantity, price) ==
    /\ CanStart(p)
    /\ LET started == [Idle EXCEPT !.op = op, !.user_id = user_id,
                           !.symbol = symbol, !.order_type = order_type,
                           !.order_style = order_style, !.quantity = quantity,
                           !.price = price]
           instrument == get_instrument_by_symbol(symbol)
       IN  IF validate_params(order_style, quantity, price) # ""
           THEN proc' = [proc EXCEPT ![p] = [started EXCEPT !.pc = "done",
                             !.result = validate_params(order_style, quantity, price)]]
           ELSE IF IsNone(instrument)
           THEN proc' = [proc EXCEPT ![p] = [started EXCEPT !.pc = "done",
                             !.result = "InstrumentNotFound"]]
           ELSE proc' = [proc EXCEPT ![p] = [started EXCEPT
                             !.pc = IF order_type = "SELL" THEN "validate_holding"
                                    ELSE "create_order",
                             !.validated_price = Val(instrument).last_traded_price]]
    /\ UNCHANGED <<instruments, orders, trades, portfolio, catalog_updates, cancels, audit>>

\* routes/orders.py place_order: parse the body, then create_order for the
\* default user
place_order(p, symbol, order_type, order_style, quantity, price) ==
    create_order(p, "place_order", DEFAULT_USER_ID, Upper(symbol), order_type,
                 order_style, quantity,
                 IF IsNone(price) \/ Val(price) = 0 THEN None ELSE price)

\* validate_holding as it would be if only a missing row were refused
validate_holding_row_only(p) ==
    /\ proc[p].pc = "validate_holding"
    /\ LET held == get_user_holding(proc[p].user_id, proc[p].symbol)
       IN  IF IsNone(held)
           THEN proc' = [proc EXCEPT
                            ![p].pc = "done",
                            ![p].validated_price = 0,
                            ![p].result = "InsufficientHoldings",
                            ![p].available = 0,
                            ![p].requested = proc[p].quantity]
           ELSE proc' = [proc EXCEPT ![p].pc = "create_order"]
    /\ UNCHANGED <<instruments, orders, trades, portfolio, catalog_updates, cancels, audit>>

\* OrderService.validate_order, the SELL coverage check; the exception
\* carries the quantity found and the quantity asked for
validate_holding(p) ==
    /\ proc[p].pc = "validate_holding"
    /\ LET held == get_user_holding(proc[p].user_id, proc[p].symbol)
       IN  IF IsNone(held) \/ Val(held).quantity < proc[p].quantity
           THEN proc' = [proc EXCEPT
                            ![p].pc = "done",
                            ![p].validated_price = 0,
                            ![p].result = "InsufficientHoldings",
                            ![p].available = IF IsNone(held) THEN 0
                                             ELSE Val(held).quantity,
                            ![p].requested = proc[p].quantity]
           ELSE proc' = [proc EXCEPT ![p].pc = "create_order"]
    /\ UNCHANGED <<instruments, orders, trades, portfolio, catalog_updates, cancels, audit>>

\* insert_order as it would be if the route executed every order
insert_order_executes_all(p) ==
    /\ proc[p].pc = "create_order"
    /\ orders' = Append(orders,
                    [user_id |-> proc[p].user_id,
                     symbol |-> Upper(proc[p].symbol),
                     order_type |-> proc[p].order_type,
                     order_style |-> proc[p].order_style,
                     quantity |-> proc[p].quantity,
                     price |-> IF IsNone(proc[p].price) \/ Val(proc[p].price) = 0
                               THEN None ELSE proc[p].price,
                     status |-> "NEW"])
    /\ audit' = Append(audit, <<"NEW">>)
    /\ IF proc[p].op = "place_order"
       THEN proc' = [proc EXCEPT ![p] = [Idle EXCEPT !.pc = "execute_order",
                         !.op = proc[p].op, !.order_id = Len(orders) + 1,
                         !.validated_price = proc[p].validated_price]]
       ELSE proc' = [proc EXCEPT ![p] = [Idle EXCEPT !.pc = "done",
                         !.op = proc[p].op, !.order_id = Len(orders) + 1,
                         !.result = "ok"]]
    /\ UNCHANGED <<instruments, trades, portfolio, catalog_updates, cancels>>

\* OrderService.create_order: INSERT the order with status NEW and commit;
\* place_order then executes it when it is a MARKET order
insert_order(p) ==
    /\ proc[p].pc = "create_order"
    /\ orders' = Append(orders,
                    [user_id |-> proc[p].user_id,
                     symbol |-> Upper(proc[p].symbol),
                     order_type |-> proc[p].order_type,
                     order_style |-> proc[p].order_style,
                     quantity |-> proc[p].quantity,
                     price |-> IF IsNone(proc[p].price) \/ Val(proc[p].price) = 0
                               THEN None ELSE proc[p].price,
                     status |-> "NEW"])
    /\ audit' = Append(audit, <<"NEW">>)
    /\ IF proc[p].op = "place_order" /\ proc[p].order_style = "MARKET"
          /\ AUTO_EXECUTE_MARKET_ORDERS
       THEN proc' = [proc EXCEPT ![p] = [Idle EXCEPT !.pc = "execute_order",
                         !.op = proc[p].op, !.order_id = Len(orders) + 1,
                         !.validated_price = proc[p].validated_price]]
       ELSE proc' = [proc EXCEPT ![p] = [Idle EXCEPT !.pc = "done",
                         !.op = proc[p].op, !.order_id = Len(orders) + 1,
                         !.result = "ok"]]
    /\ UNCHANGED <<instruments, trades, portfolio, catalog_updates, cancels>>

(* ------------------------------ execution ----------------------------- *)

\* the order row with a new status (UPDATE orders SET status = ...; commit)
\* set_status as it would be with an UPDATE that names no order
set_status_all(order_id, status) ==
    [o \in 1..Len(orders) |-> [orders[o] EXCEPT !.status = status]]

\* set_status as it would be if the write also cleared the limit price
set_status_clears_price(order_id, status) ==
    [orders EXCEPT ![order_id].status = status, ![order_id].price = None]

set_status(order_id, status) == [orders EXCEPT ![order_id].status = status]

\* the persisted status history of the order, extended when the value changes
record_status(order_id, status) ==
    IF orders[order_id].status = status THEN audit
    ELSE [audit EXCEPT ![order_id] = Append(@, status)]

\* fill_price as it would be if every order were filled at the market
fill_price_market(order, instrument) == instrument.last_traded_price

\* OrderExecutionEngine.execute_order: the execution price
fill_price(order, instrument) ==
    IF order.order_style = "MARKET" THEN instrument.last_traded_price
    ELSE Val(order.price)

\* execute_order as it would be if the order were set PLACED before the
\* instrument is resolved
execute_order_places_first(p) ==
    /\ proc[p].pc = "execute_order"
    /\ LET order == orders[proc[p].order_id]
           instrument == get_instrument_by_symbol(order.symbol)
       IN  IF IsNone(instrument)
           THEN /\ proc' = Finish(p, "InstrumentNotFound")
                /\ orders' = set_status(proc[p].order_id, "PLACED")
                /\ audit' = record_status(proc[p].order_id, "PLACED")
           ELSE /\ proc' = [proc EXCEPT ![p].pc = "execute_placed",
                                          ![p].loaded_status = order.status,
                                          ![p].resolved_price =
                                              Val(instrument).last_traded_price,
                                          ![p].execution_price =
                                              fill_price(order, Val(instrument))]
                /\ UNCHANGED <<orders, audit>>
    /\ UNCHANGED <<instruments, trades, portfolio, catalog_updates, cancels>>

\* OrderExecutionEngine.execute_order: load the order, resolve its instrument
\* and determine the execution price
execute_order(p) ==
    /\ proc[p].pc = "execute_order"
    /\ LET order == orders[proc[p].order_id]
           instrument == get_instrument_by_symbol(order.symbol)
       IN  IF IsNone(instrument)
           THEN proc' = Finish(p, "InstrumentNotFound")
           ELSE proc' = [proc EXCEPT ![p].pc = "execute_placed",
                                     ![p].loaded_status = order.status,
                                     ![p].resolved_price =
                                         Val(instrument).last_traded_price,
                                     ![p].execution_price =
                                         fill_price(order, Val(instrument))]
    /\ UNCHANGED <<instruments, orders, trades, portfolio, catalog_updates, cancels,
                   audit>>

\* OrderExecutionEngine.execute_order called by a user of the services on an
\* order that exists
call_execute_order(p, order_id) ==
    /\ CanStart(p)
    /\ order_id \in 1..Len(orders)
    /\ proc' = [proc EXCEPT ![p] = [Idle EXCEPT !.pc = "execute_order",
                                          !.op = "execute_order",
                                          !.order_id = order_id]]
    /\ UNCHANGED <<instruments, orders, trades, portfolio, catalog_updates, cancels,
                   audit>>

\* order.status = PLACED; commit.  The UPDATE is sent when the value differs
\* from the one the session loaded.
execute_placed(p) ==
    /\ proc[p].pc = "execute_placed"
    /\ IF proc[p].loaded_status = "PLACED"
       THEN UNCHANGED <<orders, audit>>
       ELSE /\ orders' = set_status(proc[p].order_id, "PLACED")
            /\ audit' = record_status(proc[p].order_id, "PLACED")
    /\ proc' = [proc EXCEPT ![p].pc = "create_trade", ![p].loaded_status = ""]
    /\ UNCHANGED <<instruments, trades, portfolio, catalog_updates, cancels>>

\* total_value as it would be if the quantity were left out
total_value_unit(executed_price, quantity) == executed_price

\* TradeService.create_trade: total value of the trade
total_value(executed_price, quantity) == executed_price * quantity

\* create_trade as it would be if the INSERT were sent twice
create_trade_twice(p) ==
    /\ proc[p].pc = "create_trade"
    /\ LET order == orders[proc[p].order_id]
           trade == [order_id |-> proc[p].order_id,
                     user_id |-> order.user_id,
                     symbol |-> order.symbol,
                     trade_type |-> order.order_type,
                     quantity |-> order.quantity,
                     executed_price |-> proc[p].execution_price,
                     total_value |-> total_value(proc[p].execution_price,
                                                 order.quantity)]
       IN  trades' = Append(Append(trades, trade), trade)
    /\ proc' = [proc EXCEPT ![p].pc = "portfolio_read",
                            ![p].trade_id = Len(trades) + 1,
                            ![p].execution_price = 0]
    /\ UNCHANGED <<instruments, orders, portfolio, catalog_updates, cancels, audit>>

\* create_trade as it would be if the store kept a fixed number of rows,
\* the oldest making room for the newest
create_trade_rotating(p) ==
    /\ proc[p].pc = "create_trade"
    /\ LET order == orders[proc[p].order_id]
           trade == [order_id |-> proc[p].order_id,
                     user_id |-> order.user_id,
                     symbol |-> order.symbol,
                     trade_type |-> order.order_type,
                     quantity |-> order.quantity,
                     executed_price |-> proc[p].execution_price,
                     total_value |-> total_value(proc[p].execution_price,
                                                 order.quantity)]
       IN  trades' = IF trades = <<>> THEN <<trade>>
                     ELSE Append(Tail(trades), trade)
    /\ proc' = [proc EXCEPT ![p].pc = "portfolio_read",
                            ![p].trade_id = IF trades = <<>> THEN 1 ELSE Len(trades),
                            ![p].execution_price = 0]
    /\ UNCHANGED <<instruments, orders, portfolio, catalog_updates, cancels, audit>>

\* TradeService.create_trade: INSERT the trade and commit
create_trade(p) ==
    /\ proc[p].pc = "create_trade"
    /\ LET order == orders[proc[p].order_id]
       IN  trades' = Append(trades,
                        [order_id |-> proc[p].order_id,
                         user_id |-> order.user_id,
                         symbol |-> order.symbol,
                         trade_type |-> order.order_type,
                         quantity |-> order.quantity,
                         executed_price |-> proc[p].execution_price,
                         total_value |-> total_value(proc[p].execution_price,
                                                     order.quantity)])
    /\ proc' = [proc EXCEPT ![p].pc = "portfolio_read",
                            ![p].trade_id = Len(trades) + 1,
                            ![p].execution_price = 0]
    /\ UNCHANGED <<instruments, orders, portfolio, catalog_updates, cancels, audit>>

\* PortfolioService.update_portfolio_after_trade: SELECT the holding
portfolio_read(p) ==
    /\ proc[p].pc = "portfolio_read"
    /\ LET trade == trades[proc[p].trade_id]
       IN  proc' = [proc EXCEPT ![p].pc = "portfolio_write",
                                ![p].holding =
                                    get_user_holding(trade.user_id, trade.symbol)]
    /\ UNCHANGED <<instruments, orders, trades, portfolio, catalog_updates, cancels, audit>>

(* --------------------------- holdings ledger -------------------------- *)

\* buy_existing as it would be with the plain mean of the two prices
buy_existing_unweighted(holding, trade) ==
    LET new_quantity == holding.quantity + trade.quantity
    IN  {[quantity |-> new_quantity,
          average_price |-> a,
          total_invested |-> t,
          fills |-> {trade.executed_price},
          dirty |-> {"quantity", "average_price", "total_invested"}] :
            a \in Quantize(holding.average_price + trade.executed_price, 2),
            t \in Quantize((holding.average_price + trade.executed_price)
                               * new_quantity, 2)}

\* update_portfolio_after_trade, BUY on an existing holding: the values the
\* row is given (as the columns store them) and the columns the session
\* finds changed against the values it loaded
buy_existing(holding, trade) ==
    LET old_value == holding.average_price * holding.quantity
        new_value == trade.executed_price * trade.quantity
        new_quantity == holding.quantity + trade.quantity
    IN  {[quantity |-> new_quantity,
          average_price |-> a,
          total_invested |-> t,
          fills |-> {trade.executed_price},
          dirty |-> {"quantity"}
                    \cup (IF old_value + new_value # holding.average_price * new_quantity
                          THEN {"average_price"} ELSE {})
                    \cup (IF old_value + new_value # holding.total_invested
                          THEN {"total_invested"} ELSE {})] :
            a \in Quantize(old_value + new_value, new_quantity),
            t \in Quantize((old_value + new_value) * new_quantity, new_quantity)}

\* update_portfolio_after_trade, BUY with no holding: the new row
buy_new_unit(trade) ==
    [id |-> NewHoldingId,
     user_id |-> trade.user_id,
     symbol |-> trade.symbol,
     quantity |-> trade.quantity,
     average_price |-> trade.executed_price,
     total_invested |-> trade.executed_price,
     fills |-> {trade.executed_price}]

buy_new(trade) ==
    [id |-> NewHoldingId,
     user_id |-> trade.user_id,
     symbol |-> trade.symbol,
     quantity |-> trade.quantity,
     average_price |-> trade.executed_price,
     total_invested |-> trade.total_value,
     fills |-> {trade.executed_price}]

\* sell_existing as it would be if the proceeds were taken off the invested
\* total
sell_existing_proceeds(holding, trade) ==
    LET new_quantity == holding.quantity - trade.quantity
    IN  [quantity |-> new_quantity,
         average_price |-> holding.average_price,
         total_invested |-> holding.total_invested - trade.total_value,
         fills |-> {},
         dirty |-> {"quantity", "total_invested"}]

\* update_portfolio_after_trade, SELL on an existing holding
sell_existing(holding, trade) ==
    LET new_quantity == holding.quantity - trade.quantity
    IN  [quantity |-> new_quantity,
         average_price |-> holding.average_price,
         total_invested |-> holding.average_price * new_quantity,
         fills |-> {},
         dirty |-> {"quantity"}
                   \cup (IF holding.average_price * new_quantity
                             # holding.total_invested
                         THEN {"total_invested"} ELSE {})]

\* UPDATE portfolio SET <dirty columns> WHERE id = ...: the table afterwards
update_row(id, values) ==
    LET row == CHOOSE h \in portfolio : h.id = id
    IN  (portfolio \ {row}) \cup
        {[row EXCEPT
            !.quantity = IF "quantity" \in values.dirty
                         THEN values.quantity ELSE @,
            !.average_price = IF "average_price" \in values.dirty
                              THEN values.average_price ELSE @,
            !.total_invested = IF "total_invested" \in values.dirty
                               THEN values.total_invested ELSE @,
            !.fills = @ \cup values.fills]}

\* PortfolioService.update_portfolio_after_trade: apply the trade to the
\* holding that was read, and commit.  A flush that fails (division by zero,
\* unique_user_symbol violated, UPDATE matching no row) ends the request with
\* an error and writes nothing; a DELETE matching no row only warns.
portfolio_write(p) ==
    /\ proc[p].pc = "portfolio_write"
    /\ LET trade == trades[proc[p].trade_id]
           holding == proc[p].holding
           next == [proc EXCEPT ![p].pc = "execute_executed", ![p].holding = None]
           present == ~IsNone(holding) /\ \E h \in portfolio : h.id = Val(holding).id
       IN  IF trade.trade_type = "BUY" /\ ~IsNone(holding)
           THEN IF Val(holding).quantity + trade.quantity = 0 \/ ~present
                THEN proc' = Finish(p, "InternalError") /\ portfolio' = portfolio
                ELSE \E values \in buy_existing(Val(holding), trade) :
                        /\ portfolio' = update_row(Val(holding).id, values)
                        /\ proc' = next
           ELSE IF trade.trade_type = "BUY"
           THEN IF \E h \in portfolio : h.user_id = trade.user_id
                                         /\ h.symbol = trade.symbol
                THEN proc' = Finish(p, "InternalError") /\ portfolio' = portfolio
                ELSE portfolio' = portfolio \cup {buy_new(trade)} /\ proc' = next
           ELSE IF IsNone(holding)
           THEN portfolio' = portfolio /\ proc' = next
           ELSE IF sell_existing(Val(holding), trade).quantity = 0
           THEN /\ portfolio' = {h \in portfolio : h.id # Val(holding).id}
                /\ proc' = next
           ELSE IF ~present
           THEN proc' = Finish(p, "InternalError") /\ portfolio' = portfolio
           ELSE /\ portfolio' = update_row(Val(holding).id,
                                           sell_existing(Val(holding), trade))
                /\ proc' = next
    /\ UNCHANGED <<instruments, orders, trades, catalog_updates, cancels, audit>>

\* order.status = EXECUTED; commit; return the trade
execute_executed(p) ==
    /\ proc[p].pc = "execute_executed"
    /\ orders' = set_status(proc[p].order_id, "EXECUTED")
    /\ audit' = record_status(proc[p].order_id, "EXECUTED")
    /\ proc' = [Finish(p, "ok") EXCEPT
                   ![p].validated_price = proc[p].validated_price,
                   ![p].resolved_price = proc[p].resolved_price]
    /\ UNCHANGED <<instruments, trades, portfolio, catalog_updates, cancels>>

(* ----------------------------- cancellation --------------------------- *)

\* can_cancel as it would be if only EXECUTED orders were refused
can_cancel_unless_executed(status) == status # "EXECUTED"

\* can_cancel as it would be if only NEW orders were accepted
can_cancel_new_only(status) == status = "NEW"

\* OrderService.cancel_order: the status test
can_cancel(status) == status \notin {"EXECUTED", "CANCELLED"}

\* cancel_order as it would be if a missing order were reported as one that
\* cannot be cancelled
cancel_order_missing_invalid(p, order_id) ==
    /\ CanStart(p)
    /\ cancels' = cancels + 1
    /\ IF order_id \notin 1..Len(orders) \/ ~can_cancel(orders[order_id].status)
       THEN proc' = [proc EXCEPT ![p] = [Idle EXCEPT !.pc = "done",
                         !.op = "cancel_order", !.order_id = order_id,
                         !.result = "InvalidOrder"]]
       ELSE proc' = [proc EXCEPT ![p] = [Idle EXCEPT !.pc = "cancel_write",
                         !.op = "cancel_order", !.order_id = order_id]]
    /\ UNCHANGED <<instruments, orders, trades, portfolio, catalog_updates, audit>>

\* OrderService.cancel_order: load the order and test its status
cancel_order(p, order_id) ==
    /\ CanStart(p)
    /\ cancels' = cancels + 1
    /\ IF order_id \notin 1..Len(orders)
       THEN proc' = [proc EXCEPT ![p] = [Idle EXCEPT !.pc = "done",
                         !.op = "cancel_order", !.order_id = order_id,
                         !.result = "OrderNotFound"]]
       ELSE IF ~can_cancel(orders[order_id].status)
       THEN proc' = [proc EXCEPT ![p] = [Idle EXCEPT !.pc = "done",
                         !.op = "cancel_order", !.order_id = order_id,
                         !.result = "InvalidOrder"]]
       ELSE proc' = [proc EXCEPT ![p] = [Idle EXCEPT !.pc = "cancel_write",
                         !.op = "cancel_order", !.order_id = order_id]]
    /\ UNCHANGED <<instruments, orders, trades, portfolio, catalog_updates, audit>>

\* OrderService.cancel_order: order.status = CANCELLED; commit; return
cancel_write(p) ==
    /\ proc[p].pc = "cancel_write"
    /\ orders' = set_status(proc[p].order_id, "CANCELLED")
    /\ audit' = record_status(proc[p].order_id, "CANCELLED")
    /\ proc' = Finish(p, "ok")
    /\ UNCHANGED <<instruments, trades, portfolio, catalog_updates, cancels>>

\* the response is sent; the thread is free again
respond(p) ==
    /\ proc[p].pc = "done"
    /\ proc' = [proc EXCEPT ![p] = Idle]
    /\ UNCHANGED <<instruments, orders, trades, portfolio, catalog_updates, cancels, audit>>

(* ---------------------------- portfolio read -------------------------- *)

\* Portfolio.to_dict: the holding as a dictionary; the keys currentValue,
\* profitLoss and profitLossPercentage are present (Some) only when a
\* current price is given and is not zero. The percentage is kept as the
\* fraction <<numerator, denominator>>.
to_dict(holding, current_price) ==
    LET priced == ~IsNone(current_price) /\ Val(current_price) # 0
        currentValue == holding.quantity * Val(current_price)
        profitLoss == currentValue - holding.total_invested
    IN  [id |-> holding.id,
         userId |-> holding.user_id,
         symbol |-> holding.symbol,
         quantity |-> holding.quantity,
         averagePrice |-> holding.average_price,
         totalInvested |-> holding.total_invested,
         currentValue |-> IF priced THEN Some(currentValue) ELSE None,
         profitLoss |-> IF priced THEN Some(profitLoss) ELSE None,
         profitLossPercentage |->
             IF ~priced THEN None
             ELSE IF holding.total_invested > 0
             THEN Some(<<profitLoss * 100, holding.total_invested>>)
             ELSE Some(<<0, 1>>)]

\* GET /portfolio: PortfolioService.get_user_portfolio loads the rows of the
\* default user
get_portfolio(p) ==
    /\ CanStart(p)
    /\ proc' = [proc EXCEPT ![p] = [Idle EXCEPT !.pc = "get_user_portfolio",
                      !.op = "get_portfolio", !.user_id = DEFAULT_USER_ID,
                      !.holdings = {h \in portfolio :
                                      h.user_id = DEFAULT_USER_ID}]]
    /\ UNCHANGED <<instruments, orders, trades, portfolio, catalog_updates,
                   cancels, audit>>

\* get_user_portfolio as it would be without the except around the lookup
get_user_portfolio_raises(p) ==
    /\ proc[p].pc = "get_user_portfolio"
    /\ IF proc[p].holdings = {}
       THEN proc' = [proc EXCEPT ![p].pc = "done", ![p].result = "ok"]
       ELSE \E holding \in proc[p].holdings :
               LET instrument == get_instrument_by_symbol(holding.symbol)
               IN  IF IsNone(instrument)
                   THEN proc' = Finish(p, "InternalError")
                   ELSE proc' = [proc EXCEPT
                            ![p].holdings = proc[p].holdings \ {holding},
                            ![p].response = proc[p].response \cup
                                {to_dict(holding,
                                         Some(Val(instrument).last_traded_price))}]
    /\ UNCHANGED <<instruments, orders, trades, portfolio, catalog_updates,
                   cancels, audit>>

\* get_user_portfolio, one turn of its loop: look the next holding's
\* instrument up and add the holding with the current price, or without it
\* when the lookup raises; after the last holding the route answers 200
get_user_portfolio(p) ==
    /\ proc[p].pc = "get_user_portfolio"
    /\ IF proc[p].holdings = {}
       THEN proc' = [proc EXCEPT ![p].pc = "done", ![p].result = "ok"]
       ELSE \E holding \in proc[p].holdings :
               LET instrument == get_instrument_by_symbol(holding.symbol)
               IN  proc' = [proc EXCEPT
                       ![p].holdings = proc[p].holdings \ {holding},
                       ![p].response = proc[p].response \cup
                           {IF IsNone(instrument)
                            THEN to_dict(holding, None)
                            ELSE to_dict(holding,
                                         Some(Val(instrument).last_traded_price))}]
    /\ UNCHANGED <<instruments, orders, trades, portfolio, catalog_updates,
                   cancels, audit>>

(* ------------------------- external catalog feed ---------------------- *)

\* Instrument.last_traded_price is updated from outside the services
update_price(symbol, price) ==
    /\ instruments[symbol].last_traded_price # price
    /\ instruments' = [instruments EXCEPT ![symbol].last_traded_price = price]
    /\ catalog_updates' = catalog_updates + 1
    /\ UNCHANGED <<orders, trades, portfolio, proc, cancels, audit>>

\* Instrument.is_active is switched from outside the services
set_active(symbol) ==
    /\ instruments' = [instruments EXCEPT ![symbol].is_active = ~@]
    /\ catalog_updates' = catalog_updates + 1
    /\ UNCHANGED <<orders, trades, portfolio, proc, cancels, audit>>

(* ---------------------------- specification --------------------------- *)

\* the requests a client may send to a free thread
Request(p, symbols, styles, quantities, prices) ==
    \/ \E symbol \in symbols, order_type \in {"BUY", "SELL"},
          order_style \in styles, quantity \in quantities, price \in prices :
            place_order(p, symbol, order_type, order_style, quantity, price)
    \/ \E order_id \in 1..(Len(orders) + 1) : cancel_order(p, order_id)

Step(p) ==
    \/ validate_holding(p)
    \/ insert_order(p)
    \/ execute_order(p)
    \/ execute_placed(p)
    \/ create_trade(p)
    \/ portfolio_read(p)
    \/ portfolio_write(p)
    \/ execute_executed(p)
    \/ cancel_write(p)
    \/ respond(p)

\* the external feed: price moves, and instruments switched on and off
PriceFeed(symbols) ==
    \E symbol \in symbols, price \in Prices : update_price(symbol, price)

ActiveFeed(symbols) ==
    \E symbol \in symbols : set_active(symbol)

\* events from outside so far
Events == Placements + cancels + catalog_updates

AllIdle == \A q \in Procs : proc[q].pc = "idle"

\* Overlapping requests: MARKET orders on one symbol, cancellations, and the
\* price feed of that symbol.
Concurrent(budget) ==
    \/ /\ Events < budget
       /\ \/ \E p \in Procs : Request(p, {"AAPL"}, {"MARKET"}, 1..MaxQty, {None})
          \/ PriceFeed({"AAPL"})
    \/ \E p \in Procs : Step(p)

Next == Concurrent(MaxEvents)

Spec == Init /\ [][Next]_vars

\* The same with the scheduling of a threaded server: a request that has
\* begun is given its next step sooner or later; no new request has to come.
SpecFair == Init /\ [][Next]_vars /\ \A p \in Procs : WF_vars(Step(p))

NextLong == Concurrent(MaxEvents + 1)

\* Overlapping requests for one unit each, over a history long enough for a
\* holding to be bought, sold out and bought again.
NextReuse ==
    \/ /\ Events < MaxEvents + 3
       /\ \/ \E p \in Procs : Request(p, {"AAPL"}, {"MARKET"}, {1}, {None})
          \/ PriceFeed({"AAPL"})
    \/ \E p \in Procs : Step(p)

SpecReuse == Init /\ [][NextReuse]_vars

SpecLong == Init /\ [][NextLong]_vars

\* One request at a time: orders on one symbol, cancellations, and the price
\* feed of that symbol.
NextLedger ==
    \/ /\ Events < MaxEvents + 2
       /\ \/ \E p \in Procs :
                AllIdle /\ Request(p, {"AAPL"}, {"MARKET", "LIMIT"}, 1..MaxQty,
                                   {None, Some(100)})
          \/ PriceFeed({"AAPL"})
    \/ \E p \in Procs : Step(p)

SpecLedger == Init /\ [][NextLedger]_vars

\* One request at a time, with every kind of request body, and the whole
\* catalog feed.
NextSeq ==
    \/ /\ Events < MaxEvents
       /\ \/ \E p \in Procs :
                AllIdle /\ Request(p, RequestSymbols, {"MARKET", "LIMIT"},
                                   0..MaxQty, RequestPrices)
          \/ PriceFeed(CatalogSymbols)
          \/ ActiveFeed(CatalogSymbols)
    \/ \E p \in Procs : Step(p)

SpecSeq == Init /\ [][NextSeq]_vars

\* executions begun by calls of the engine, when no route is in use
Executions ==
    Len(trades) + Cardinality({q \in Procs :
                      proc[q].pc \in {"execute_order", "execute_placed", "create_trade"}})

\* The services called directly, one call at a time: create_order with the
\* symbol as the caller wrote it, execute_order on any order, cancel_order,
\* and the whole catalog feed.
Services(budget) ==
    \/ /\ Events + Executions < budget
       /\ \/ \E p \in Procs :
                /\ AllIdle
                /\ \/ \E symbol \in RequestSymbols, order_type \in {"BUY", "SELL"},
                          order_style \in {"MARKET", "LIMIT"},
                          quantity \in 0..MaxQty, price \in RequestPrices :
                            create_order(p, "create_order", DEFAULT_USER_ID, symbol,
                                         order_type, order_style, quantity, price)
                   \/ \E order_id \in 1..Len(orders) :
                            call_execute_order(p, order_id)
                   \/ \E order_id \in 1..(Len(orders) + 1) : cancel_order(p, order_id)
          \/ PriceFeed(CatalogSymbols)
          \/ ActiveFeed(CatalogSymbols)
    \/ \E p \in Procs : Step(p)

NextSvc == Services(MaxEvents)

SpecSvc == Init /\ [][NextSvc]_vars

NextSvcLong == Services(MaxEvents + 1)

SpecSvcLong == Init /\ [][NextSvcLong]_vars

\* The routes with the portfolio read, one request at a time, while the
\* catalog feed runs: placements and cancellations on the seeded symbols, and
\* GET /portfolio at any time.
NextRead ==
    \/ /\ Events < MaxEvents + 1
       /\ \/ \E p \in Procs :
                AllIdle /\ Request(p, CatalogSymbols, {"MARKET", "LIMIT"},
                                   1..MaxQty, {Some(100)})
          \/ PriceFeed({"AAPL"})
          \/ ActiveFeed(CatalogSymbols)
    \/ \E p \in Procs : AllIdle /\ get_portfolio(p)
    \/ \E p \in Procs : Step(p)
    \/ \E p \in Procs : get_user_portfolio(p)

SpecRead == Init /\ [][NextRead]_vars

(* ------------------------------- claims ------------------------------- *)

Range(f) == {f[i] : i \in DOMAIN f}
OrderIds == 1..Len(orders)
TradesOf(order_id) == {t \in 1..Len(trades) : trades[t].order_id = order_id}

LegalTransitions ==
    {<<"NEW", "PLACED">>, <<"PLACED", "EXECUTED">>,
     <<"NEW", "CANCELLED">>, <<"PLACED", "CANCELLED">>}

\* C1: every change of an order's status is NEW->PLACED, PLACED->EXECUTED,
\* NEW->CANCELLED or PLACED->CANCELLED, so EXECUTED and CANCELLED are never
\* left.
C1_LegalTransitions ==
    [][\A o \in OrderIds :
          orders'[o].status # orders[o].status
              => <<orders[o].status, orders'[o].status>> \in LegalTransitions]_vars

\* C2: no order has both a cancel_order that returned it as CANCELLED and an
\* execute_order that returned its Trade.
C2_NotBothSucceed ==
    \A o \in OrderIds : ~({"CANCELLED", "EXECUTED"} \subseteq Range(audit[o]))

\* the ledger values of a holding, without its key
Values(h) == [quantity |-> h.quantity, average_price |-> h.average_price,
              total_invested |-> h.total_invested]

\* update_portfolio_after_trade run alone on a holding (None or its values)
AppliedAlone(h, trade) ==
    IF trade.trade_type = "BUY"
    THEN IF IsNone(h) THEN {Some(Values(buy_new(trade)))}
         ELSE IF Val(h).quantity + trade.quantity = 0 THEN {}
         ELSE {Some(Values(v)) : v \in buy_existing(Val(h), trade)}
    ELSE IF IsNone(h) THEN {None}
         ELSE IF sell_existing(Val(h), trade).quantity = 0 THEN {None}
         ELSE {Some(Values(sell_existing(Val(h), trade)))}

\* the holdings that applying the trades ts one after the other can give
RECURSIVE SerialOutcomes(_, _)
SerialOutcomes(h, ts) ==
    IF ts = {} THEN {h}
    ELSE UNION {UNION {SerialOutcomes(h2, ts \ {t}) :
                          h2 \in AppliedAlone(h, trades[t])} : t \in ts}

HoldingValues(user_id, symbol) ==
    IF IsNone(get_user_holding(user_id, symbol)) THEN None
    ELSE Some(Values(Val(get_user_holding(user_id, symbol))))

\* C3: once every execution has returned its trade, the holding is what the
\* trades give when applied one after the other in some order.
C3_SerialHolding ==
    (/\ AllIdle
     /\ \A o \in OrderIds : audit[o] = <<"NEW", "PLACED", "EXECUTED">>)
        => \A s \in CatalogSymbols :
              HoldingValues(DEFAULT_USER_ID, s) \in
                  SerialOutcomes(None, {t \in 1..Len(trades) : trades[t].symbol = s})

\* C4: no holding has a negative quantity.
C4_NonNegative == \A h \in portfolio : h.quantity >= 0

\* C5: an order has at most one trade, and an EXECUTED order exactly one.
C5_OneTradePerOrder ==
    \A o \in OrderIds :
        /\ Cardinality(TradesOf(o)) <= 1
        /\ orders[o].status = "EXECUTED" => Cardinality(TradesOf(o)) = 1

\* two orders executed, each with its trade
C5_Witness ==
    \E o1, o2 \in OrderIds :
        /\ o1 # o2
        /\ orders[o1].status = "EXECUTED" /\ orders[o2].status = "EXECUTED"
        /\ Cardinality(TradesOf(o1)) = 1 /\ Cardinality(TradesOf(o2)) = 1

\* C6: when the execution of a MARKET order returns, the order has exactly
\* one trade, at the last-traded price read by the execution, and its
\* persisted statuses were NEW, PLACED, EXECUTED.
C6_MarketExecution ==
    \A p \in Procs :
        (proc[p].pc = "done" /\ proc[p].op = "place_order" /\ proc[p].trade_id # 0
         /\ proc[p].result = "ok")
            => /\ TradesOf(proc[p].order_id) = {proc[p].trade_id}
               /\ trades[proc[p].trade_id].executed_price = proc[p].resolved_price
               /\ audit[proc[p].order_id] = <<"NEW", "PLACED", "EXECUTED">>

\* the process p applies its trade of the given side to a holding it found
Applying(p, side) ==
    /\ proc[p].pc = "portfolio_write"
    /\ proc'[p].pc = "execute_executed"
    /\ trades[proc[p].trade_id].trade_type = side
    /\ ~IsNone(proc[p].holding)

HeldBy(table, trade) ==
    {h \in table : h.user_id = trade.user_id /\ h.symbol = trade.symbol}

RECURSIVE CostOf(_)
CostOf(ts) ==
    IF ts = {} THEN 0
    ELSE LET t == CHOOSE x \in ts : TRUE
         IN  trades[t].executed_price * trades[t].quantity + CostOf(ts \ {t})

RECURSIVE QuantityOf(_)
QuantityOf(ts) ==
    IF ts = {} THEN 0
    ELSE LET t == CHOOSE x \in ts : TRUE
         IN  trades[t].quantity + QuantityOf(ts \ {t})

TradesIn(symbol) == {t \in 1..Len(trades) : trades[t].symbol = symbol}

\* C8: after a sequence of BUY trades of a symbol, the average cost is the
\* quantity-weighted mean of the fill prices, to the nearest cent.
C8_WeightedMean ==
    \A h \in portfolio :
        (/\ AllIdle
         /\ \A t \in TradesIn(h.symbol) : trades[t].trade_type = "BUY")
            => h.average_price \in
                   Quantize(CostOf(TradesIn(h.symbol)), QuantityOf(TradesIn(h.symbol)))

\* C9: a SELL of q on a holding of Q >= q at average A removes the row when
\* Q = q, and otherwise leaves quantity Q - q, average A and total invested
\* A * (Q - q).
C9_SellExisting ==
    [][\A p \in Procs :
          (Applying(p, "SELL")
           /\ Val(proc[p].holding).quantity >= trades[proc[p].trade_id].quantity) =>
              LET t == trades[proc[p].trade_id]
                  Q == Val(proc[p].holding).quantity
                  A == Val(proc[p].holding).average_price
              IN  /\ HeldBy(portfolio, t) = {Val(proc[p].holding)}
                  /\ IF Q = t.quantity
                     THEN HeldBy(portfolio', t) = {}
                     ELSE \E h \in HeldBy(portfolio', t) :
                            /\ HeldBy(portfolio', t) = {h}
                            /\ h.quantity = Q - t.quantity
                            /\ h.average_price = A
                            /\ h.total_invested = A * (Q - t.quantity)]_vars

\* part of a holding was sold at a price other than its average cost
C9_Witness ==
    \E p \in Procs, h \in portfolio :
        /\ proc[p].pc = "execute_executed"
        /\ trades[proc[p].trade_id].trade_type = "SELL"
        /\ h.symbol = trades[proc[p].trade_id].symbol
        /\ h.quantity > 0
        /\ h.average_price # trades[proc[p].trade_id].executed_price

\* C10: every holding row has total invested = average cost * quantity.
C10_TotalInvested ==
    \A h \in portfolio : h.total_invested = h.average_price * h.quantity

\* the quantity of symbol that the user holds, 0 with no holding row
Held(user_id, symbol) ==
    IF IsNone(get_user_holding(user_id, symbol)) THEN 0
    ELSE Val(get_user_holding(user_id, symbol)).quantity

\* the step in which the route hands the request of p to create_order
Placing(p) ==
    /\ proc[p].pc = "idle"
    /\ proc'[p].pc # "idle"
    /\ proc'[p].op = "place_order"

\* the step leaves the orders, the trades and the holdings as they were
LedgerUnchanged == UNCHANGED <<orders, trades, portfolio>>

\* C11 as stated: every SELL request for more than the user holds has failed
\* with InsufficientHoldings carrying available = h and requested = n when
\* it returns.
C11_SellBeyondHolding ==
    \A p \in Procs :
        (/\ proc[p].pc = "done"
         /\ proc[p].op = "place_order"
         /\ proc[p].order_type = "SELL"
         /\ Held(proc[p].user_id, proc[p].symbol) < proc[p].quantity)
            => /\ proc[p].result = "InsufficientHoldings"
               /\ proc[p].available = Held(proc[p].user_id, proc[p].symbol)
               /\ proc[p].requested = proc[p].quantity

\* C11, amended: a SELL request with quantity > 0, a positive price when its
\* style is LIMIT, and a symbol of an active instrument reaches the coverage
\* check with nothing written; there, when the user holds h < n, it fails
\* with InsufficientHoldings carrying available = h and requested = n, and
\* orders, trades and holdings are as they were.
C11_InsufficientHoldings ==
    [][\A p \in Procs :
          /\ (/\ Placing(p)
              /\ proc'[p].order_type = "SELL"
              /\ validate_params(proc'[p].order_style, proc'[p].quantity,
                                 proc'[p].price) = ""
              /\ ~IsNone(get_instrument_by_symbol(proc'[p].symbol)))
                 => proc'[p].pc = "validate_holding" /\ LedgerUnchanged
          /\ (/\ proc[p].pc = "validate_holding"
              /\ proc'[p] # proc[p]
              /\ Held(proc[p].user_id, proc[p].symbol) < proc[p].quantity)
                 => /\ proc'[p].pc = "done"
                    /\ proc'[p].result = "InsufficientHoldings"
                    /\ proc'[p].available = Held(proc[p].user_id, proc[p].symbol)
                    /\ proc'[p].requested = proc[p].quantity
                    /\ LedgerUnchanged]_vars

\* a SELL for more than a holding that exists was refused
C11_Witness ==
    \E p \in Procs :
        /\ proc[p].pc = "done"
        /\ proc[p].result = "InsufficientHoldings"
        /\ proc[p].available > 0
        /\ proc[p].requested > proc[p].available
        /\ Held(proc[p].user_id, proc[p].symbol) = proc[p].available

\* C12: a placement request with quantity <= 0, or with style LIMIT and a
\* price that is absent or <= 0, fails with InvalidOrder in the step that
\* receives it, with no order created and orders, trades and holdings as
\* they were.
C12_InvalidOrder ==
    [][\A p \in Procs :
          (/\ Placing(p)
           /\ \/ proc'[p].quantity <= 0
              \/ /\ proc'[p].order_style = "LIMIT"
                 /\ (IsNone(proc'[p].price) \/ Val(proc'[p].price) <= 0))
              => /\ proc'[p].pc = "done"
                 /\ proc'[p].result = "InvalidOrder"
                 /\ LedgerUnchanged]_vars

\* a LIMIT request with a price that is not positive was refused while the
\* user had orders and a holding
C12_Witness ==
    \E p \in Procs :
        /\ proc[p].pc = "done"
        /\ proc[p].op = "place_order"
        /\ proc[p].result = "InvalidOrder"
        /\ proc[p].order_style = "LIMIT"
        /\ proc[p].quantity > 0
        /\ ~IsNone(proc[p].price)
        /\ Val(proc[p].price) <= 0
        /\ orders # <<>>
        /\ portfolio # {}

\* C13: validation gives the same outcome for every letter-casing of the
\* symbol: the coverage check of a SELL passes exactly when the holding
\* under the upper-case symbol covers the quantity, and every order stores
\* the upper-case symbol.
C13_CaseInsensitive ==
    [][/\ \A p \in Procs :
             (proc[p].pc = "validate_holding" /\ proc'[p] # proc[p])
                 => (proc'[p].pc = "create_order"
                        <=> Held(proc[p].user_id, Upper(proc[p].symbol))
                                >= proc[p].quantity)
       /\ \A o \in 1..Len(orders') : orders'[o].symbol = Upper(orders'[o].symbol)]_vars

\* the symbol is not in the catalog, or its instrument is inactive
NotTradable(symbol) ==
    \/ symbol \notin CatalogSymbols
    \/ ~instruments[symbol].is_active

\* C14 as stated: every placement request whose symbol is not in the catalog
\* or is inactive fails with InstrumentNotFound and creates no order, no
\* trade and no holding change.
C14_UnknownSymbol ==
    [][\A p \in Procs :
          (Placing(p) /\ NotTradable(proc'[p].symbol))
              => /\ proc'[p].pc = "done"
                 /\ proc'[p].result = "InstrumentNotFound"
                 /\ LedgerUnchanged]_vars

\* C14, amended: a placement request with quantity > 0, and a positive
\* price when its style is LIMIT, whose symbol is not in the catalog or is
\* inactive fails with InstrumentNotFound and creates no order, no trade and
\* no holding change.
C14_InstrumentNotFound ==
    [][\A p \in Procs :
          (/\ Placing(p)
           /\ NotTradable(proc'[p].symbol)
           /\ proc'[p].quantity > 0
           /\ proc'[p].order_style = "LIMIT"
                  => (~IsNone(proc'[p].price) /\ Val(proc'[p].price) > 0))
              => /\ proc'[p].pc = "done"
                 /\ proc'[p].result = "InstrumentNotFound"
                 /\ LedgerUnchanged]_vars

\* a request for a catalog symbol that was switched off was refused
C14_Witness ==
    \E p \in Procs :
        /\ proc[p].pc = "done"
        /\ proc[p].op = "place_order"
        /\ proc[p].result = "InstrumentNotFound"
        /\ proc[p].symbol \in CatalogSymbols
        /\ ~instruments[proc[p].symbol].is_active

\* the step in which cancel_order loads the order for the request of p
Cancelling(p) ==
    /\ proc[p].pc = "idle"
    /\ proc'[p].op = "cancel_order"

\* C15: a cancellation that finds its order EXECUTED or CANCELLED fails
\* with InvalidOrder and leaves the order's status, the trades and the
\* holdings as they were.
C15_CancelRefused ==
    [][\A p \in Procs :
          (/\ Cancelling(p)
           /\ proc'[p].order_id \in OrderIds
           /\ orders[proc'[p].order_id].status \in {"EXECUTED", "CANCELLED"})
              => /\ proc'[p].pc = "done"
                 /\ proc'[p].result = "InvalidOrder"
                 /\ LedgerUnchanged]_vars

\* the cancellation of a CANCELLED order was refused, with a trade of
\* another order on record
C15_Witness ==
    \E p \in Procs :
        /\ proc[p].pc = "done"
        /\ proc[p].op = "cancel_order"
        /\ proc[p].result = "InvalidOrder"
        /\ orders[proc[p].order_id].status = "CANCELLED"
        /\ trades # <<>>

\* C16: a cancellation that finds its order NEW or PLACED goes on to write,
\* and its write succeeds, sets that order's status to CANCELLED and changes
\* no other order, no trade and no holding.
C16_CancelAccepted ==
    [][\A p \in Procs :
          /\ (/\ Cancelling(p)
              /\ proc'[p].order_id \in OrderIds
              /\ orders[proc'[p].order_id].status \in {"NEW", "PLACED"})
                 => proc'[p].pc = "cancel_write" /\ LedgerUnchanged
          /\ (proc[p].pc = "cancel_write" /\ proc'[p] # proc[p])
                 => /\ proc'[p].pc = "done"
                    /\ proc'[p].result = "ok"
                    /\ orders' = [orders EXCEPT ![proc[p].order_id].status = "CANCELLED"]
                    /\ UNCHANGED <<trades, portfolio>>]_vars

\* an order that had been set PLACED was cancelled before it had a trade
C16_Witness ==
    \E p \in Procs :
        /\ proc[p].pc = "done"
        /\ proc[p].op = "cancel_order"
        /\ proc[p].result = "ok"
        /\ audit[proc[p].order_id] = <<"NEW", "PLACED", "CANCELLED">>
        /\ orders[proc[p].order_id].status = "CANCELLED"
        /\ TradesOf(proc[p].order_id) = {}

\* C17: a cancellation of an order id that does not exist fails with
\* OrderNotFound and changes no order, trade or holding.
C17_OrderNotFound ==
    [][\A p \in Procs :
          (Cancelling(p) /\ proc'[p].order_id \notin OrderIds)
              => /\ proc'[p].pc = "done"
                 /\ proc'[p].result = "OrderNotFound"
                 /\ LedgerUnchanged]_vars

\* a cancellation of a missing order id was refused while orders existed
C17_Witness ==
    \E p \in Procs :
        /\ proc[p].pc = "done"
        /\ proc[p].op = "cancel_order"
        /\ proc[p].result = "OrderNotFound"
        /\ proc[p].order_id \notin OrderIds
        /\ orders # <<>>

\* bought minus sold quantity over the trades ts
RECURSIVE NetQuantityOf(_)
NetQuantityOf(ts) ==
    IF ts = {} THEN 0
    ELSE LET t == CHOOSE x \in ts : TRUE
         IN  (IF trades[t].trade_type = "BUY" THEN trades[t].quantity
              ELSE 0 - trades[t].quantity) + NetQuantityOf(ts \ {t})

\* C18: in no state is an order PLACED without a trade, and in no state is
\* there a trade that the holdings do not yet contain.
C18_AtomicExecution ==
    /\ \A o \in OrderIds : orders[o].status = "PLACED" => TradesOf(o) # {}
    /\ \A symbol \in CatalogSymbols :
          Held(DEFAULT_USER_ID, symbol) = NetQuantityOf(TradesIn(symbol))

\* C19: when execute_order finds the order's symbol unknown or inactive it
\* fails with InstrumentNotFound, the order's persisted status is still NEW,
\* the order has no trade and no order, trade or holding has changed.
C19_ExecuteUnresolved ==
    [][\A p \in Procs :
          (/\ proc[p].pc = "execute_order"
           /\ proc'[p] # proc[p]
           /\ NotTradable(orders[proc[p].order_id].symbol))
              => /\ proc'[p].pc = "done"
                 /\ proc'[p].result = "InstrumentNotFound"
                 /\ orders'[proc[p].order_id].status = "NEW"
                 /\ TradesOf(proc[p].order_id) = {}
                 /\ LedgerUnchanged]_vars

\* the execution of an order whose instrument was switched off after the
\* order was created has failed
C19_Witness ==
    \E p \in Procs :
        /\ proc[p].pc = "done"
        /\ proc[p].op = "place_order"
        /\ proc[p].result = "InstrumentNotFound"
        /\ proc[p].order_id \in OrderIds
        /\ orders[proc[p].order_id].status = "NEW"
        /\ ~instruments[orders[proc[p].order_id].symbol].is_active

\* C20: a SELL trade applied when its (user, symbol) has no holding row does
\* not complete: the execution does not go on to set the order EXECUTED,
\* and the holdings are as they were.
C20_SellWithoutHolding ==
    [][\A p \in Procs :
          (/\ proc[p].pc = "portfolio_write"
           /\ proc'[p] # proc[p]
           /\ trades[proc[p].trade_id].trade_type = "SELL"
           /\ HeldBy(portfolio, trades[proc[p].trade_id]) = {})
              => /\ proc'[p].pc = "done"
                 /\ proc'[p].result # "ok"
                 /\ portfolio' = portfolio]_vars

\* C21: the trades only grow, and a trade that exists keeps its order
\* reference, user, symbol, side, quantity, executed price and total value.
C21_AppendOnly ==
    [][/\ Len(trades') >= Len(trades)
       /\ \A t \in 1..Len(trades) : trades'[t] = trades[t]]_vars

\* a second trade was added after the first order had been executed
C21_Witness ==
    /\ Len(trades) >= 2
    /\ orders[trades[1].order_id].status = "EXECUTED"

\* C22: every trade has total value = executed price * quantity, and the
\* user, symbol, side and quantity of its order.
C22_TradeOfOrder ==
    \A t \in 1..Len(trades) :
        /\ trades[t].order_id \in OrderIds
        /\ trades[t].total_value = trades[t].executed_price * trades[t].quantity
        /\ trades[t].user_id = orders[trades[t].order_id].user_id
        /\ trades[t].symbol = orders[trades[t].order_id].symbol
        /\ trades[t].trade_type = orders[trades[t].order_id].order_type
        /\ trades[t].quantity = orders[trades[t].order_id].quantity

\* a trade of more than one unit exists
C22_Witness ==
    \E t \in 1..Len(trades) :
        /\ trades[t].quantity > 1
        /\ trades[t].total_value > trades[t].executed_price

C24_PriceIffLimit ==
    \A o \in OrderIds :
        /\ ~IsNone(orders[o].price) <=> orders[o].order_style = "LIMIT"
        /\ ~IsNone(orders[o].price) => Val(orders[o].price) > 0

\* C25: there is at most one holding row per (user, symbol), and when the
\* executions have returned, the row of a symbol that was only bought holds
\* the quantity of every one of its trades.
C25_OneRowPerSymbol ==
    /\ \A h1, h2 \in portfolio :
          (h1.user_id = h2.user_id /\ h1.symbol = h2.symbol) => h1 = h2
    /\ \A symbol \in CatalogSymbols :
          (/\ AllIdle
           /\ \A t \in TradesIn(symbol) : trades[t].trade_type = "BUY")
              => Held(DEFAULT_USER_ID, symbol) = QuantityOf(TradesIn(symbol))

\* C26: every holding row has a quantity > 0.
C26_PositiveQuantity == \A h \in portfolio : h.quantity > 0

\* no holding row has the quantity 0
NoZeroQuantity == \A h \in portfolio : h.quantity # 0

\* no two holding rows have the same user and symbol
UniqueUserSymbol ==
    \A h1, h2 \in portfolio :
        (h1.user_id = h2.user_id /\ h1.symbol = h2.symbol) => h1 = h2

\* the step in which the route returns for a placement whose order exists
Returning(p) ==
    /\ proc[p].op = "place_order"
    /\ proc[p].pc # "done"
    /\ proc'[p].pc = "done"
    /\ proc'[p].order_id # 0

\* a MARKET placement returns its order EXECUTED together with its trade
ReturnsExecuted(p) ==
    /\ proc'[p].result = "ok"
    /\ orders'[proc'[p].order_id].status = "EXECUTED"
    /\ proc'[p].trade_id \in 1..Len(trades')
    /\ trades'[proc'[p].trade_id].order_id = proc'[p].order_id

\* a LIMIT placement returns its order NEW with no trade and the holdings
\* as they were
ReturnsNew(p) ==
    /\ proc'[p].result = "ok"
    /\ orders'[proc'[p].order_id].status = "NEW"
    /\ proc'[p].trade_id = 0
    /\ \A t \in 1..Len(trades') : trades'[t].order_id # proc'[p].order_id
    /\ UNCHANGED <<trades, portfolio>>

ApplyingNew(p) ==
    /\ proc[p].pc = "portfolio_write"
    /\ proc'[p].pc = "execute_executed"
    /\ trades[proc[p].trade_id].trade_type = "BUY"
    /\ IsNone(proc[p].holding)

\* C28: a BUY trade applied when no holding row exists for its user and
\* symbol creates the one row of the pair, with the trade's quantity, the
\* trade's executed price as average cost and the trade's total value as
\* total invested.
C28_BuyNew ==
    [][\A p \in Procs :
          ApplyingNew(p) =>
              LET t == trades[proc[p].trade_id]
              IN  /\ HeldBy(portfolio, t) = {}
                  /\ \E h \in HeldBy(portfolio', t) :
                        /\ HeldBy(portfolio', t) = {h}
                        /\ h.quantity = t.quantity
                        /\ h.average_price = t.executed_price
                        /\ h.total_invested = t.total_value
                  /\ \A h \in portfolio : h \in portfolio']_vars

\* a symbol bought, sold down to zero and bought again holds what the last
\* BUY says, more than one unit of it
C28_Witness ==
    /\ Len(trades) = 3
    /\ trades[1].trade_type = "BUY"
    /\ trades[2].trade_type = "SELL"
    /\ trades[2].quantity = trades[1].quantity
    /\ trades[3].trade_type = "BUY"
    /\ trades[3].quantity > 1
    /\ trades[3].executed_price # trades[1].executed_price
    /\ \E h \in HeldBy(portfolio, trades[3]) :
          /\ h.quantity = trades[3].quantity
          /\ h.average_price = trades[3].executed_price
          /\ h.total_invested = trades[3].total_value

\* the dictionary returned for a holding carries none of the current-value
\* keys
Unpriced(dict) ==
    /\ IsNone(dict.currentValue)
    /\ IsNone(dict.profitLoss)
    /\ IsNone(dict.profitLossPercentage)

\* the rows of the user in the holdings table
HoldingsOf(user_id) == {h \in portfolio : h.user_id = user_id}

\* C29: getPortfolio never fails over a holding whose instrument cannot be
\* resolved: each turn of its loop adds the holding it looked at to the
\* answer, without the current-value keys when the instrument is missing or
\* inactive and with quantity x last traded price otherwise, and the request
\* ends ok with one entry for every holding of the user.
C29_PortfolioRead ==
    [][\A p \in Procs :
          /\ (proc[p].pc = "get_user_portfolio" /\ proc[p].holdings # {}
                 /\ proc'[p] # proc[p]) =>
                \E h \in proc[p].holdings, d \in proc'[p].response :
                    /\ proc'[p].pc = "get_user_portfolio"
                    /\ proc'[p].holdings = proc[p].holdings \ {h}
                    /\ proc'[p].response = proc[p].response \cup {d}
                    /\ d.id = h.id /\ d.symbol = h.symbol
                    /\ d.quantity = h.quantity
                    /\ d.averagePrice = h.average_price
                    /\ d.totalInvested = h.total_invested
                    /\ IF NotTradable(h.symbol)
                       THEN Unpriced(d)
                       ELSE /\ d.currentValue =
                                 Some(h.quantity
                                        * instruments[h.symbol].last_traded_price)
                            /\ d.profitLoss =
                                 Some(Val(d.currentValue) - h.total_invested)
          /\ (proc[p].op = "get_portfolio" /\ proc[p].pc # "done"
                 /\ proc'[p].pc = "done") =>
                /\ proc'[p].result = "ok"
                /\ {d.id : d \in proc'[p].response}
                      = {h.id : h \in HoldingsOf(DEFAULT_USER_ID)}
                /\ Cardinality(proc'[p].response)
                      = Cardinality(HoldingsOf(DEFAULT_USER_ID))]_vars

\* a portfolio read has answered with both holdings of the user, the one of
\* an instrument switched off without the current-value keys and the other
\* with them
C29_Witness ==
    \E p \in Procs :
        /\ proc[p].pc = "done"
        /\ proc[p].op = "get_portfolio"
        /\ proc[p].result = "ok"
        /\ Cardinality(HoldingsOf(DEFAULT_USER_ID)) = 2
        /\ \E d, e \in proc[p].response :
              /\ Unpriced(d)
              /\ ~instruments[d.symbol].is_active
              /\ ~IsNone(e.currentValue)

\* the first of validate_order's checks that a request fails before the
\* holdings are read, "" when it passes them all
FirstFailure(symbol, order_style, quantity, price) ==
    IF quantity <= 0 THEN "InvalidOrder"
    ELSE IF order_style = "LIMIT" /\ (IsNone(price) \/ Val(price) <= 0)
    THEN "InvalidOrder"
    ELSE IF NotTradable(Upper(symbol)) THEN "InstrumentNotFound"
    ELSE ""

C30_WitnessOversell ==
    \E p \in Procs :
        /\ proc[p].pc = "done"
        /\ proc[p].op = "place_order"
        /\ proc[p].order_type = "SELL"
        /\ proc[p].quantity > Held(DEFAULT_USER_ID, proc[p].symbol)
        /\ proc[p].symbol \notin CatalogSymbols
        /\ proc[p].result = "InstrumentNotFound"

\* C31: every trade belongs to an order whose status is PLACED or EXECUTED;
\* no order in NEW or CANCELLED has a trade.
C31_TradedOrders ==
    \A t \in 1..Len(trades) :
        /\ trades[t].order_id \in OrderIds
        /\ orders[trades[t].order_id].status \in {"PLACED", "EXECUTED"}

\* the same once every request has been answered
C31_TradedOrdersAtRest ==
    AllIdle => C31_TradedOrders

\* an execution has begun its writes and has not finished them
ExecutionInProgress ==
    \E p \in Procs :
        proc[p].pc \in {"execute_placed", "create_trade", "portfolio_read",
                        "portfolio_write", "execute_executed"}

\* C32: when no execution is in progress, the quantity held of every symbol
\* (0 without a row) is the sum of the quantities of its BUY trades minus the
\* sum of the quantities of its SELL trades.
C32_HoldingIsNetOfTrades ==
    ~ExecutionInProgress =>
        \A symbol \in CatalogSymbols :
            Held(DEFAULT_USER_ID, symbol) = NetQuantityOf(TradesIn(symbol))

\* the order that p executes had left NEW before this call of execute_order
\* set it PLACED: its persisted history is longer than NEW, PLACED
CalledOffNew(p) ==
    /\ proc[p].pc \in {"create_trade", "portfolio_read", "portfolio_write"}
    /\ Len(audit[proc[p].order_id]) > 2

\* C33: execute_order called on an order that is not in NEW creates no trade
\* and changes no holding, so that executing an order twice leaves the
\* trades and the holdings as executing it once does.
C33_ExecuteOnce ==
    [][\A p \in Procs :
          (CalledOffNew(p) /\ proc'[p] # proc[p])
              => UNCHANGED <<trades, portfolio>>]_vars

\* C34: a placement that returns an error has left the orders, the trades
\* and the holdings as they were before the call: the request has inserted
\* no order and no trade.
C34_ErrorLeavesNothing ==
    \A p \in Procs :
        (/\ proc[p].pc = "done"
         /\ proc[p].op = "place_order"
         /\ proc[p].result # "ok")
            => /\ proc[p].order_id = 0
               /\ proc[p].trade_id = 0

\* a step of the execution of an order by p
Executing(p) ==
    /\ proc[p].pc \in {"execute_order", "execute_placed", "create_trade",
                        "portfolio_read", "portfolio_write", "execute_executed"}
    /\ proc'[p] # proc[p]

\* the holdings of every other user or symbol than the order's
OtherHoldings(table, order) ==
    {h \in table : h.user_id # order.user_id \/ h.symbol # order.symbol}

\* C35: every step of the execution of an order changes at most that
\* order's status, adds at most one trade, which is the order's, and changes
\* at most the holding of the order's user and symbol; every other order,
\* every existing trade, every other holding and the instrument catalog are
\* left as they were.
C35_ExecutionFrame ==
    [][\A p \in Procs :
          Executing(p) =>
              LET o == proc[p].order_id
              IN  /\ Len(orders') = Len(orders)
                  /\ \A n \in OrderIds : n # o => orders'[n] = orders[n]
                  /\ orders' = [orders EXCEPT ![o].status = orders'[o].status]
                  /\ Len(trades') \in {Len(trades), Len(trades) + 1}
                  /\ \A t \in 1..Len(trades) : trades'[t] = trades[t]
                  /\ \A t \in 1..Len(trades') :
                        t > Len(trades) => trades'[t].order_id = o
                  /\ OtherHoldings(portfolio', orders[o])
                        = OtherHoldings(portfolio, orders[o])
                  /\ instruments' = instruments]_vars

\* two orders for different symbols are EXECUTED, each with its trade and
\* its holding
C35_Witness ==
    /\ Len(trades) = 2
    /\ trades[1].symbol # trades[2].symbol
    /\ \A t \in 1..2 : orders[trades[t].order_id].status = "EXECUTED"
    /\ \A t \in 1..2 : \E h \in portfolio :
          h.symbol = trades[t].symbol /\ h.quantity = trades[t].quantity
    /\ trades[1].order_id # trades[2].order_id

\* C36: no step changes the user, symbol, side, style, quantity or limit
\* price of an order that exists, and no order is removed: execution and
\* cancellation change the status only.
C36_OrderFieldsFixed ==
    [][/\ Len(orders') >= Len(orders)
       /\ \A o \in OrderIds :
             orders'[o] = [orders[o] EXCEPT !.status = orders'[o].status]]_vars

\* a LIMIT order for more than one unit has been cancelled or executed and
\* still carries its limit price
C36_Witness ==
    \E o \in OrderIds :
        /\ orders[o].order_style = "LIMIT"
        /\ orders[o].status \in {"CANCELLED", "EXECUTED"}
        /\ orders[o].quantity > 1
        /\ orders[o].price = Some(101)
        /\ Len(audit[o]) >= 2

\* C37: under fair scheduling every order that is PLACED is later EXECUTED
\* or CANCELLED, also when executions for the same user and symbol overlap.
C37_PlacedResolves ==
    \A o \in 1..MaxEvents :
        (o \in OrderIds /\ orders[o].status = "PLACED")
            ~> (o \in OrderIds /\ orders[o].status \in {"EXECUTED", "CANCELLED"})

\* an order is PLACED and no request is executing it
C37_Stuck ==
    \E o \in OrderIds :
        /\ orders[o].status = "PLACED"
        /\ \A p \in Procs : proc[p].pc # "done" => proc[p].order_id # o
        /\ \A p \in Procs : proc[p].pc \in {"idle", "done"}

\* C38: the stored average cost of every holding is at least the lowest and
\* at most the highest executed price of the BUY trades applied to its row
\* since the row was created.
C38_AverageWithinFills ==
    \A h \in portfolio :
        /\ \E price \in h.fills : price <= h.average_price
        /\ \E price \in h.fills : price >= h.average_price

\* with one request at a time: a holding bought at two prices whose exact
\* mean is not a whole number of cents keeps its average within them
C38_InTurn ==
    \E h \in portfolio :
        /\ Cardinality(h.fills) = 2
        /\ h.quantity > 2
        /\ C38_AverageWithinFills

====
